---- MODULE Spec2Model ----
(***************************************************************************)
(* A model of the data-access and credential layer of BackendGoAPI:        *)
(*   internal/data/users.go     the user repository over the users table   *)
(*   internal/data/filters.go   the sort/pagination resolver               *)
(*   internal/password/hash.go  the bcrypt credential                      *)
(*                                                                         *)
(* Strings are sequences of one-character strings, so that length,        *)
(* prefix and concatenation are computed as the code computes them.        *)
(* A Go pointer that may be nil is a sequence of length 0 or 1.            *)
(***************************************************************************)
EXTENDS Integers, Sequences, FiniteSets, TLC

VARIABLES
    users,      \* the rows of the users table
    nextId,     \* the users.id sequence of the store
    now,        \* the clock (time.Now(), the store's NOW())
    tokens,     \* the rows of the tokens table (owned by the token store)
    mem,        \* mem[c]: the id, created_at and version of the User caller c holds
    last,       \* the last call of the repository: caller, method, argument, result
    updates,    \* updates[id]: the Update calls on user id that returned nil
    won,        \* the (id, version) pairs an Update carrying them succeeded on
    panicked,   \* the process was aborted by a panic
    tokRet,     \* the last GetForToken call: its arguments and what it returned
    pw,         \* a password.Password value
    pwRet,      \* what the last call on pw returned
    flt,        \* a Filters value
    fltRet,     \* what the last call on flt returned
    pend        \* pend[c]: the call of caller c that is under way, step by step

vars == <<users, nextId, now, tokens, mem, last, updates, won, panicked, tokRet,
          pw, pwRet, flt, fltRet, pend>>

repoVars == <<users, nextId, mem, last, updates, won, panicked>>
tokVars  == <<tokens, tokRet>>

-----------------------------------------------------------------------------
(* Bounds of the model *)

\* number of concurrent callers of the repository
NumCallers == 2
\* rows the users table may hold
MaxUsers == 2
\* the highest version a row is driven to
MaxVersion == 2
\* the last instant of the clock
MaxTime == 2

\* rows the tokens table may hold
MaxTokens == 2

-----------------------------------------------------------------------------
(* Strings *)

\* the string of n copies of character ch
Rep(ch, n) == [i \in 1..n |-> ch]

\* strings.HasPrefix(s, p)
HasPrefix(s, p) == Len(s) >= Len(p) /\ SubSeq(s, 1, Len(p)) = p

\* strings.TrimPrefix(s, p)
TrimPrefix(s, p) == IF HasPrefix(s, p) THEN SubSeq(s, Len(p) + 1, Len(s)) ELSE s

\* the first n bytes of s
Take(s, n) == IF Len(s) <= n THEN s ELSE SubSeq(s, 1, n)

-----------------------------------------------------------------------------
(* Errors *)

\* a nil error
Nil == "nil"

\* users.go: var ErrDuplicateEmail
ErrDuplicateEmail == "duplicate email"

\* package data: the sentinel errors the repository returns
ErrRecordNotFound == "record not found"
ErrEditConflict == "edit conflict"

\* database/sql: sql.ErrNoRows, what Scan returns when the statement yields no row
SqlErrNoRows == "sql: no rows in result set"

\* what the store reports when a statement breaks UNIQUE(email) of table users
PqUniqueViolation == "pq: duplicate key value violates unique constraint \"users_email_key\""

\* what a call returns when its 3 second context expires or the store is unreachable
CtxDeadlineExceeded == "context deadline exceeded"

\* golang.org/x/crypto/bcrypt
ErrMismatchedHashAndPassword == "crypto/bcrypt: hashedPassword is not the hash of the given password"
ErrHashTooShort == "crypto/bcrypt: hashedSecret too short to be a bcrypted password"
ErrPasswordTooLong == "bcrypt: password length exceeds 72 bytes"

-----------------------------------------------------------------------------
(* internal/password/hash.go *)

\* the work factor Set passes to bcrypt
BcryptCost == 12

\* the number of key bytes bcrypt reads
BcryptMaxKey == 72

\* the byte bcrypt appends to the password before keying the cipher
NUL == "NUL"

\* a []byte that is nil
NilHash == [kind |-> "nil"]

\* a []byte of length 0
EmptyHash == [kind |-> "empty"]

\* bytes that are no bcrypt hash
MalformedHash == [kind |-> "malformed"]

\* The cipher key bcrypt derives from a password: the password followed by a
\* NUL byte, of which the key schedule reads the first 72 bytes only.
BcryptKey(plain) == Take(plain \o <<NUL>>, BcryptMaxKey)

\* The bcrypt hash of a password under a cost and a salt.  The digest is a
\* one-way function of (cost, salt, key) without collisions: it is the triple.
Bcrypt(plain, cost, salt) ==
    [kind |-> "bcrypt", cost |-> cost, salt |-> salt, key |-> BcryptKey(plain)]

\* bcrypt.GenerateFromPassword(password, cost), salt being the random salt drawn
GenerateFromPassword(plain, cost, salt) ==
    IF Len(plain) > BcryptMaxKey
    THEN [hash |-> NilHash, err |-> ErrPasswordTooLong]
    ELSE [hash |-> Bcrypt(plain, cost, salt), err |-> Nil]

\* bcrypt.CompareHashAndPassword(hashedPassword, password)
CompareHashAndPassword(hash, plain) ==
    IF hash.kind # "bcrypt" THEN ErrHashTooShort
    ELSE IF Bcrypt(plain, hash.cost, hash.salt) = hash THEN Nil
    ELSE ErrMismatchedHashAndPassword

\* the zero value of password.Password
ZeroPassword == [PlainText |-> <<>>, Hash |-> NilHash]

\* func (p *Password) Set(plainTestPassword string) error
\* yields the password after the call and the error returned
PasswordSet(p, plain, salt) ==
    LET g == GenerateFromPassword(plain, BcryptCost, salt) IN
    IF g.err # Nil
    THEN [p |-> p, err |-> g.err]
    ELSE [p |-> [PlainText |-> <<plain>>, Hash |-> g.hash], err |-> Nil]

\* a Matches that returns every error of bcrypt, the mismatch too
PasswordMatchesAllErrors(p, plain) ==
    LET err == CompareHashAndPassword(p.Hash, plain) IN
    IF err # Nil THEN [ok |-> FALSE, err |-> err] ELSE [ok |-> TRUE, err |-> Nil]

\* a Matches that reports every error of bcrypt as a mismatch
PasswordMatchesNoErrors(p, plain) ==
    LET err == CompareHashAndPassword(p.Hash, plain) IN
    IF err # Nil THEN [ok |-> FALSE, err |-> Nil] ELSE [ok |-> TRUE, err |-> Nil]

\* func (p *Password) Matches(plainTestPassword string) (bool, error)
PasswordMatches(p, plain) ==
    LET err == CompareHashAndPassword(p.Hash, plain) IN
    IF err # Nil
    THEN IF err = ErrMismatchedHashAndPassword
         THEN [ok |-> FALSE, err |-> Nil]
         ELSE [ok |-> FALSE, err |-> err]
    ELSE [ok |-> TRUE, err |-> Nil]

-----------------------------------------------------------------------------
(* internal/validator, as internal/data uses it *)

\* validator.New(): no errors yet
NewValidator == {}

\* v.AddError(key, message): the first message of a key is kept
AddError(v, key, message) ==
    IF \E e \in v : e.key = key THEN v ELSE v \cup {[key |-> key, message |-> message]}

\* v.Check(ok, key, message)
Check(v, ok, key, message) == IF ok THEN v ELSE AddError(v, key, message)

\* v.Valid()
Valid(v) == v = {}

\* validator.NotIn(value, list...)
NotIn(value, list) == value \notin list

\* validator.PermittedValue(value, permittedValues...)
PermittedValue(value, permittedValues) ==
    \E i \in 1..Len(permittedValues) : permittedValues[i] = value

\* the characters of the model's alphabet EmailRX admits left of the @
EmailLocalChars == {"a", "b", "."}

\* the letters and digits of the model's alphabet
AlphaNum == {"a", "b"}

\* a domain: labels of letters, digits and inner hyphens, separated by dots
IsDomain(d) ==
    /\ Len(d) >= 1
    /\ \A i \in 1..Len(d) : d[i] \in AlphaNum \cup {".", "-"}
    /\ d[1] \in AlphaNum /\ d[Len(d)] \in AlphaNum
    /\ \A i \in 1..Len(d) :
           d[i] = "." => d[i - 1] \in AlphaNum /\ d[i + 1] \in AlphaNum

\* validator.Matches(value, validator.EmailRX)
MatchesEmailRX(value) ==
    \E i \in 1..Len(value) :
        /\ value[i] = "@"
        /\ i >= 2
        /\ \A j \in 1..(i - 1) : value[j] \in EmailLocalChars
        /\ IsDomain(SubSeq(value, i + 1, Len(value)))

-----------------------------------------------------------------------------
(* internal/data/users.go: the User and its validation *)

\* the longest name ValidateUser admits, in bytes
MaxNameLen == 500

\* the shortest and the longest plaintext ValidatePassowrdPlaintext admits
MinPasswordLen == 8
MaxPasswordLen == 72

\* password.CommonPasswords, the denylist
CommonPasswords == {<<"p", "a", "s", "s", "w", "o", "r", "d">>}

\* the zero value of User: &User{}
ZeroUser ==
    [ID |-> 0, CreatedAt |-> 0, Name |-> <<>>, Email |-> <<>>,
     Password |-> ZeroPassword, Activated |-> FALSE, Version |-> 0]

\* func ValidateEmail(v *validator.Validator, email string)
ValidateEmail(v, email) ==
    LET v1 == Check(v, email # <<>>, "email", "must be provided") IN
    Check(v1, MatchesEmailRX(email), "email", "must be a valid email address")

\* func ValidatePassowrdPlaintext(v *validator.Validator, pass string)
ValidatePassowrdPlaintext(v, pass) ==
    LET v1 == Check(v, pass # <<>>, "password", "must be provided")
        v2 == Check(v1, Len(pass) >= MinPasswordLen, "password",
                    "must be at least 8 bytes long")
        v3 == Check(v2, Len(pass) <= MaxPasswordLen, "password",
                    "must not be more than 72 bytes long")
    IN  Check(v3, NotIn(pass, CommonPasswords), "Password", "Password is too common")

\* ValidateUser without its check of the hash
ValidateUserNeverPanics(user) == FALSE

\* whether ValidateUser reaches its panic("missing password hash for user")
ValidateUserPanics(user) == user.Password.Hash = NilHash

\* a ValidateUser that checks the plaintext of every user, an absent one as ""
ValidateUserAlwaysPassword(v, user) ==
    LET v1 == Check(v, user.Name # <<>>, "name", "must be provided")
        v2 == Check(v1, Len(user.Name) <= MaxNameLen, "name",
                    "must not be more than 500 bytes long")
        v3 == ValidateEmail(v2, user.Email)
    IN  ValidatePassowrdPlaintext(v3, IF user.Password.PlainText # <<>>
                                      THEN user.Password.PlainText[1] ELSE <<>>)

\* func ValidateUser(v *validator.Validator, user *User): the validator after
\* the checks (the call panics after them when ValidateUserPanics)
ValidateUser(v, user) ==
    LET v1 == Check(v, user.Name # <<>>, "name", "must be provided")
        v2 == Check(v1, Len(user.Name) <= MaxNameLen, "name",
                    "must not be more than 500 bytes long")
        v3 == ValidateEmail(v2, user.Email)
    IN  IF user.Password.PlainText # <<>>
        THEN ValidatePassowrdPlaintext(v3, user.Password.PlainText[1])
        ELSE v3

-----------------------------------------------------------------------------
(* internal/data/filters.go *)

\* the largest page and the largest page size ValidateFilters admits
MaxPage == 10000000
MaxPageSize == 100

\* a ValidateFilters whose page check stops below the largest page
ValidateFiltersBelowMaxPage(v, f) ==
    LET v1 == Check(v, f.Page > 0, "page", "must be greater than zero")
        v2 == Check(v1, f.Page < MaxPage, "page", "must be a maximum of 10 million")
        v3 == Check(v2, f.PageSize > 0, "page_size", "must be greater than zero")
        v4 == Check(v3, f.PageSize <= MaxPageSize, "page_size", "must be less than 100")
    IN  Check(v4, PermittedValue(f.Sort, f.SortSafeList), "sort", "invalid sort value")

\* func ValidateFilters(v *validator.Validator, f Filters)
ValidateFilters(v, f) ==
    LET v1 == Check(v, f.Page > 0, "page", "must be greater than zero")
        v2 == Check(v1, f.Page <= MaxPage, "page", "must be a maximum of 10 million")
        v3 == Check(v2, f.PageSize > 0, "page_size", "must be greater than zero")
        v4 == Check(v3, f.PageSize <= MaxPageSize, "page_size", "must be less than 100")
    IN  Check(v4, PermittedValue(f.Sort, f.SortSafeList), "sort", "invalid sort value")

\* the loop of sortColumn from entry i of the safelist on: the column name
\* returned, or the panic reached when the loop ends
RECURSIVE SortColumnFrom(_, _)
SortColumnFrom(f, i) ==
    IF i > Len(f.SortSafeList)
    THEN [panics |-> TRUE, out |-> <<>>]
    ELSE IF f.Sort = f.SortSafeList[i]
         THEN [panics |-> FALSE, out |-> TrimPrefix(f.Sort, <<"-">>)]
         ELSE SortColumnFrom(f, i + 1)

\* a sortColumn that takes a sort value beginning with a safelist entry
SortColumnByPrefix(f) ==
    IF \E i \in 1..Len(f.SortSafeList) : HasPrefix(f.Sort, f.SortSafeList[i])
    THEN [panics |-> FALSE, out |-> TrimPrefix(f.Sort, <<"-">>)]
    ELSE [panics |-> TRUE, out |-> <<>>]

\* func (f Filters) sortColumn() string
SortColumn(f) == SortColumnFrom(f, 1)

\* func (f Filters) sortDirection() string
SortDirection(f) ==
    IF HasPrefix(f.Sort, <<"-">>) THEN <<"D", "E", "S", "C">> ELSE <<"A", "S", "C">>

\* A Go int (64 bits) that may exceed the integers of the checker is the
\* sequence of its binary digits, the most significant first; the empty
\* sequence is 0.  A float64 is such a sequence with FracBits digits right of
\* the binary point, of which at most MantissaBits are significant.

\* the significant binary digits of a float64
MantissaBits == 53

\* the binary digits kept right of the point: enough for a quotient by a
\* page size below 2^7 to show its 53 significant digits and one more
FracBits == 61

Zeros(n) == [i \in 1..n |-> 0]

\* the digits of the arithmetic below are handled ChunkBits at a time
ChunkBits == 8

\* the binary digits of a small natural number
RECURSIVE BitsOf(_)
BitsOf(n) == IF n = 0 THEN <<>> ELSE BitsOf(n \div 2) \o <<n % 2>>

\* the ChunkBits digits of x < 2^ChunkBits
Chunk(x) == [k \in 1..ChunkBits |-> (x \div 2^(ChunkBits - k)) % 2]

\* the value of the ChunkBits digits of bits from digit i on
ChunkVal(bits, i) ==
    bits[i] * 128 + bits[i + 1] * 64 + bits[i + 2] * 32 + bits[i + 3] * 16
    + bits[i + 4] * 8 + bits[i + 5] * 4 + bits[i + 6] * 2 + bits[i + 7]

\* bits without its leading zeros
Strip(bits) ==
    LET ones == {i \in 1..Len(bits) : bits[i] = 1}
    IN  IF ones = {} THEN <<>>
        ELSE SubSeq(bits, CHOOSE i \in ones : \A j \in ones : i <= j, Len(bits))

\* bits with leading zeros up to a whole number of chunks
Pad(bits) == Zeros((ChunkBits - (Len(bits) % ChunkBits)) % ChunkBits) \o bits

\* bits in n digits: leading zeros added or removed
Fit(bits, n) ==
    IF Len(bits) >= n THEN SubSeq(bits, Len(bits) - n + 1, Len(bits))
    ELSE Zeros(n - Len(bits)) \o bits

AnyOne(bits) == \E i \in 1..Len(bits) : bits[i] = 1

\* bits * m + c of a whole number of chunks, for small m and c
RECURSIVE MulAddChunks(_, _, _)
MulAddChunks(bits, m, c) ==
    IF Len(bits) = 0 THEN BitsOf(c)
    ELSE LET v == ChunkVal(bits, Len(bits) - ChunkBits + 1) * m + c
         IN  MulAddChunks(SubSeq(bits, 1, Len(bits) - ChunkBits), m,
                          v \div 2^ChunkBits)
             \o Chunk(v % 2^ChunkBits)

\* bits * m + c, for small m and c
MulAdd(bits, m, c) == MulAddChunks(Pad(bits), m, c)

\* a < b, both without leading zeros
Less(a, b) ==
    \/ Len(a) < Len(b)
    \/ /\ Len(a) = Len(b)
       /\ \E i \in 1..Len(a) : a[i] < b[i] /\ \A j \in 1..(i - 1) : a[j] = b[j]

\* the division of a whole number of chunks by a small d, chunk by chunk from
\* digit i on, r the remainder so far and q the quotient so far
RECURSIVE LongDivChunks(_, _, _, _, _)
LongDivChunks(bits, d, i, r, q) ==
    IF i > Len(bits) THEN [q |-> q, r |-> r]
    ELSE LET v == r * 2^ChunkBits + ChunkVal(bits, i)
         IN  LongDivChunks(bits, d, i + ChunkBits, v % d, q \o Chunk(v \div d))

\* the quotient, in the digits of bits, and the remainder of bits by a small d
LongDiv(bits, d) ==
    LET res == LongDivChunks(Pad(bits), d, 1, 0, <<>>)
    IN  [q |-> Fit(res.q, Len(bits)), r |-> res.r]

\* bits, with inexact set when digits below its last one were dropped,
\* rounded to the nearest value of 53 significant digits, ties to even; the
\* result has one digit more on the left
RoundToNearestEven(bits, inexact) ==
    LET s == Strip(bits)
        z == Len(bits) - Len(s)
    IN  IF Len(s) <= MantissaBits THEN <<0>> \o bits
        ELSE LET mant == SubSeq(s, 1, MantissaBits)
                 guard == s[MantissaBits + 1]
                 rest == inexact \/ AnyOne(SubSeq(s, MantissaBits + 2, Len(s)))
                 up == guard = 1 /\ (rest \/ mant[MantissaBits] = 1)
                 m2 == Fit(IF up THEN MulAdd(mant, 1, 1) ELSE mant, MantissaBits + 1)
             IN  Zeros(z) \o m2 \o Zeros(Len(s) - MantissaBits)

\* float64(n) of an int n
Float64(n) == RoundToNearestEven(n, FALSE) \o Zeros(FracBits)

\* x / float64(d) of a float64 x whose value is an integer and a small d > 0
Float64Quo(x, d) ==
    LET res == LongDiv(x, d)
    IN  RoundToNearestEven(res.q, res.r # 0)

\* math.Ceil(x)
MathCeil(x) ==
    LET whole == SubSeq(x, 1, Len(x) - FracBits)
        frac == SubSeq(x, Len(x) - FracBits + 1, Len(x))
    IN  Fit(IF AnyOne(frac) THEN MulAdd(whole, 1, 1) ELSE whole, Len(whole) + 1)
        \o Zeros(FracBits)

\* int(x) of a float64 x whose value is an integer below 2^63
IntOf(x) == Strip(SubSeq(x, 1, Len(x) - FracBits))

\* Metadata{}
ZeroMetadata ==
    [CurrentPage |-> 0, PageSize |-> 0, FirstPage |-> 0, LastPage |-> <<>>,
     TotalRecords |-> <<>>]

\* func calculateMetadata(totalRecords, page, pagesize int) Metadata
CalculateMetadata(totalRecords, page, pagesize) ==
    IF Strip(totalRecords) = <<>> THEN ZeroMetadata
    ELSE [CurrentPage |-> page,
          PageSize |-> pagesize,
          FirstPage |-> 1,
          LastPage |-> IntOf(MathCeil(Float64Quo(Float64(totalRecords), pagesize))),
          TotalRecords |-> Strip(totalRecords)]

-----------------------------------------------------------------------------
(* The store: tables users and tokens, and the statements the repository
   sends.  A statement is atomic: it is applied as a whole or not at all. *)

\* the version the store gives a new row of users
InitialVersion == 1

\* the constraint name the Insert method looks for in the store's error
InsertDuplicateText == "pq: duplicate key value violates unique constraint \"users_email_key\""

\* the constraint name the Update method looks for in the store's error
UpdateDuplicateText == "pq: duplicate key value violates unique constraint \"user_email_key\""

\* how the driver sends a []byte argument: a nil slice goes out as empty bytes
StoredBytes(hash) == IF hash = NilHash THEN EmptyHash ELSE hash

\* no row: what a failed statement returns
NoRow ==
    [id |-> 0, created_at |-> 0, name |-> <<>>, email |-> <<>>,
     password_hash |-> NilHash, activated |-> FALSE, version |-> 0]

\* a table users without the UNIQUE constraint on email
EmailNeverTaken(rows, id, email) == FALSE

\* UNIQUE "users_email_key": whether a row other than row id holds the email
EmailTaken(rows, id, email) == \E r \in rows : r.id # id /\ r.email = email

\* INSERT INTO users (name, email, password_hash, activated)
\* VALUES ($1, $2, $3, $4) RETURNING id, created_at, version
\* id is the next value of the id sequence and t the store's clock
QueryInsert(rows, id, t, name, email, hash, activated) ==
    IF EmailTaken(rows, id, email)
    THEN [rows |-> rows, err |-> PqUniqueViolation, row |-> NoRow]
    ELSE LET new == [id |-> id, created_at |-> t, name |-> name, email |-> email,
                     password_hash |-> StoredBytes(hash), activated |-> activated,
                     version |-> InitialVersion]
         IN  [rows |-> rows \cup {new}, err |-> Nil, row |-> new]

\* SELECT id, created_at, name, email, password_hash, activated, version
\* FROM users WHERE email = $1
QueryByEmail(rows, email) ==
    LET found == {r \in rows : r.email = email} IN
    IF found = {}
    THEN [err |-> SqlErrNoRows, row |-> NoRow]
    ELSE [err |-> Nil, row |-> CHOOSE r \in found : TRUE]

\* an UPDATE that sets the columns and leaves version as it is
UpdatedRowSameVersion(r, name, email, hash, activated) ==
    [r EXCEPT !.name = name, !.email = email, !.password_hash = StoredBytes(hash),
              !.activated = activated]

\* an UPDATE that also sets created_at
UpdatedRowNewCreatedAt(r, name, email, hash, activated) ==
    [r EXCEPT !.name = name, !.email = email, !.password_hash = StoredBytes(hash),
              !.activated = activated, !.version = r.version + 1,
              !.created_at = r.created_at + 1]

\* the row the UPDATE writes over a matched row
UpdatedRow(r, name, email, hash, activated) ==
    [r EXCEPT !.name = name, !.email = email, !.password_hash = StoredBytes(hash),
              !.activated = activated, !.version = r.version + 1]

\* an UPDATE ... WHERE id = $5, without the version
UpdateMatchById(rows, id, version) == {r \in rows : r.id = id}

\* the rows of users an UPDATE ... WHERE id = $5 AND version = $6 matches
UpdateMatch(rows, id, version) == {r \in rows : r.id = id /\ r.version = version}

\* UPDATE users SET name = $1, email = $2, password_hash = $3, activated = $4,
\* version = version + 1 WHERE id = $5 AND version = $6 RETURNING version
QueryUpdate(rows, name, email, hash, activated, id, version) ==
    LET match == UpdateMatch(rows, id, version) IN
    IF match = {}
    THEN [rows |-> rows, err |-> SqlErrNoRows, version |-> 0]
    ELSE LET old == CHOOSE r \in match : TRUE
             new == UpdatedRow(old, name, email, hash, activated)
         IN  IF EmailTaken(rows, id, email)
             THEN [rows |-> rows, err |-> PqUniqueViolation, version |-> 0]
             ELSE [rows |-> (rows \ {old}) \cup {new}, err |-> Nil,
                   version |-> new.version]

-----------------------------------------------------------------------------
(* internal/data/users.go: UserModel.  Each method yields the table after the
   call, the caller's User after the call and the error returned.  answers
   says whether the store answered within the 3 second context. *)

\* an Insert that returns the error of the store as it is
InsertErrorUnmapped(err) == err

\* the switch of Insert over the error of the store
InsertError(err) ==
    IF err = InsertDuplicateText THEN ErrDuplicateEmail ELSE err

\* an Insert that passes the plaintext of the credential where the hash goes
UserModelInsertPlainText(rows, id, t, user, answers) ==
    IF ~answers
    THEN [rows |-> rows, user |-> user, err |-> CtxDeadlineExceeded]
    ELSE LET q == QueryInsert(rows, id, t, user.Name, user.Email,
                              [kind |-> "plain", text |-> user.Password.PlainText],
                              user.Activated)
         IN  IF q.err # Nil
             THEN [rows |-> q.rows, user |-> user, err |-> InsertError(q.err)]
             ELSE [rows |-> q.rows,
                   user |-> [user EXCEPT !.ID = q.row.id,
                                         !.CreatedAt = q.row.created_at,
                                         !.Version = q.row.version],
                   err |-> Nil]

\* func (m UserModel) Insert(user *User) error
UserModelInsert(rows, id, t, user, answers) ==
    IF ~answers
    THEN [rows |-> rows, user |-> user, err |-> CtxDeadlineExceeded]
    ELSE LET q == QueryInsert(rows, id, t, user.Name, user.Email,
                              user.Password.Hash, user.Activated)
         IN  IF q.err # Nil
             THEN [rows |-> q.rows, user |-> user, err |-> InsertError(q.err)]
             ELSE [rows |-> q.rows,
                   user |-> [user EXCEPT !.ID = q.row.id,
                                         !.CreatedAt = q.row.created_at,
                                         !.Version = q.row.version],
                   err |-> Nil]

\* a Scan that leaves out &user.Version
ScanUserNoVersion(row) ==
    [ID |-> row.id, CreatedAt |-> row.created_at, Name |-> row.name,
     Email |-> row.email,
     Password |-> [PlainText |-> <<>>, Hash |-> row.password_hash],
     Activated |-> row.activated, Version |-> 0]

\* the User that GetByEmail and GetForToken scan a row into
ScanUser(row) ==
    [ID |-> row.id, CreatedAt |-> row.created_at, Name |-> row.name,
     Email |-> row.email,
     Password |-> [PlainText |-> <<>>, Hash |-> row.password_hash],
     Activated |-> row.activated, Version |-> row.version]

\* func (m UserModel) GetByEmail(email string) (*User, error)
\* user is <<>> for a nil *User
UserModelGetByEmail(rows, email, answers) ==
    IF ~answers
    THEN [user |-> <<>>, err |-> CtxDeadlineExceeded]
    ELSE LET q == QueryByEmail(rows, email) IN
         IF q.err # Nil
         THEN IF q.err = SqlErrNoRows
              THEN [user |-> <<>>, err |-> ErrRecordNotFound]
              ELSE [user |-> <<>>, err |-> q.err]
         ELSE [user |-> <<ScanUser(q.row)>>, err |-> Nil]

\* an Update that reports no row as GetByEmail does
UpdateErrorAsGet(err) ==
    IF err = UpdateDuplicateText THEN ErrDuplicateEmail
    ELSE IF err = SqlErrNoRows THEN ErrRecordNotFound
    ELSE err

\* a switch whose default case reports an edit conflict
UpdateErrorDefaultConflict(err) ==
    IF err = Nil THEN Nil
    ELSE IF err = UpdateDuplicateText THEN ErrDuplicateEmail
    ELSE ErrEditConflict

\* the switch of Update over the error of the store
UpdateError(err) ==
    IF err = UpdateDuplicateText THEN ErrDuplicateEmail
    ELSE IF err = SqlErrNoRows THEN ErrEditConflict
    ELSE err

\* an Update that scans the new version into a local variable
UserModelUpdateNoWriteBack(rows, user, answers) ==
    IF ~answers
    THEN [rows |-> rows, user |-> user, err |-> CtxDeadlineExceeded]
    ELSE LET q == QueryUpdate(rows, user.Name, user.Email, user.Password.Hash,
                              user.Activated, user.ID, user.Version)
         IN  [rows |-> q.rows, user |-> user,
              err |-> IF q.err # Nil THEN UpdateError(q.err) ELSE Nil]

\* func (m UserModel) Update(user *User) error
UserModelUpdate(rows, user, answers) ==
    IF ~answers
    THEN [rows |-> rows, user |-> user, err |-> CtxDeadlineExceeded]
    ELSE LET q == QueryUpdate(rows, user.Name, user.Email, user.Password.Hash,
                              user.Activated, user.ID, user.Version)
         IN  IF q.err # Nil
             THEN [rows |-> q.rows, user |-> user, err |-> UpdateError(q.err)]
             ELSE [rows |-> q.rows, user |-> [user EXCEPT !.Version = q.version],
                   err |-> Nil]

\* crypto/sha256: sha256.Sum256, a deterministic digest without collisions
Sha256(plain) == [sha256 |-> plain]

\* the join with tokens.expiry >= $3 in place of tokens.expiry > $3
QueryForTokenAtExpiry(rows, toks, hash, scope, t) ==
    {r \in rows : \E k \in toks : /\ k.user_id = r.id
                                  /\ k.hash = hash
                                  /\ k.scope = scope
                                  /\ k.expiry >= t}

\* the rows of users joined to a binding of tokens with the hash and the scope
\* given, whose expiry is later than t:
\* SELECT users.* FROM users INNER JOIN tokens ON users.id = tokens.user_id
\* WHERE tokens.hash = $1 AND tokens.scope = $2 AND tokens.expiry > $3
QueryForToken(rows, toks, hash, scope, t) ==
    {r \in rows : \E k \in toks : /\ k.user_id = r.id
                                  /\ k.hash = hash
                                  /\ k.scope = scope
                                  /\ k.expiry > t}

\* func (m UserModel) GetForToken(tokenScope, tokenPlainText string) (*User, error)
\* the results the call may return at time t (QueryRow scans the first row of
\* the result set, and the statement does not order it)
UserModelGetForToken(rows, toks, tokenScope, tokenPlainText, t, answers) ==
    IF ~answers
    THEN {[user |-> <<>>, err |-> CtxDeadlineExceeded]}
    ELSE LET found == QueryForToken(rows, toks, Sha256(tokenPlainText), tokenScope, t)
         IN  IF found = {}
             THEN {[user |-> <<>>, err |-> ErrRecordNotFound]}
             ELSE {[user |-> <<ScanUser(r)>>, err |-> Nil] : r \in found}

-----------------------------------------------------------------------------
(* The callers of the repository and the values they pass.  A caller holds a
   User across calls.  It sets name, email, credential and activation as it
   likes before a call, so these are inputs of the call; id, created_at and
   version are what the repository wrote into the User, and mem keeps them. *)

Callers == 1..NumCallers

Emails == {<<"a", "@", "a">>, <<"b", "@", "b">>}

\* a credential as Password.Set leaves it, and the one a caller sets later
FirstPassword ==
    PasswordSet(ZeroPassword, Rep("a", MinPasswordLen), "s1").p
SecondPassword ==
    PasswordSet(ZeroPassword, Rep("b", MinPasswordLen), "s2").p

\* the users a caller builds to insert
NewUsers ==
    {[ZeroUser EXCEPT !.Name = <<"a">>, !.Email = e, !.Password = FirstPassword] :
        e \in Emails}

\* the users a caller builds without setting a credential
HashlessUsers ==
    {[ZeroUser EXCEPT !.Name = <<"a">>, !.Email = e] : e \in Emails}

\* the User caller c passes to Update: the one it holds, its email set to e
\* and, when edited, its name, credential and activation changed
Held(c, e, edited) ==
    [ID |-> mem[c].ID, CreatedAt |-> mem[c].CreatedAt, Version |-> mem[c].Version,
     Email |-> e,
     Name |-> IF edited THEN <<"b">> ELSE <<"a">>,
     Password |-> IF edited THEN SecondPassword
                  ELSE [PlainText |-> <<>>, Hash |-> FirstPassword.Hash],
     Activated |-> edited]

\* what mem keeps of a User
Identity(u) == [ID |-> u.ID, CreatedAt |-> u.CreatedAt, Version |-> u.Version]

\* no GetForToken call yet
NoTokenCall ==
    [scope |-> "", plain |-> "", why |-> "none", user |-> <<>>, err |-> Nil]

\* no call on a Filters yet
NoFilterCall == [op |-> "none", out |-> <<>>, panics |-> FALSE, valid |-> FALSE]

\* a Filters not yet filled in
ZeroFilters == [Page |-> 0, PageSize |-> 0, Sort |-> <<>>, SortSafeList |-> <<>>]

\* no call yet
NoCall ==
    [caller |-> 0, op |-> "none", arg |-> ZeroUser, out |-> <<>>, err |-> Nil]

\* The record of a call of caller c: the User passed (for GetByEmail, a User
\* with the email passed), the User after the call (for GetByEmail, the one
\* returned, <<>> when nil) and the error.
Call(c, op, arg, out, err) ==
    [caller |-> c, op |-> op, arg |-> arg, out |-> out, err |-> err]

-----------------------------------------------------------------------------
(* The repository under concurrent callers *)

\* no call under way
NoPending ==
    [c \in Callers |->
        [phase |-> "idle", op |-> "none", arg |-> ZeroUser, scope |-> "",
         plain |-> "", queries |-> 0, timedOut |-> FALSE, row |-> NoRow,
         raw |-> Nil, out |-> <<>>, err |-> Nil]]

InitRest ==
    /\ tokens = {}
    /\ tokRet = NoTokenCall
    /\ pw = ZeroPassword
    /\ pwRet = [op |-> "none", arg |-> <<>>, ok |-> FALSE, err |-> Nil]
    /\ flt = ZeroFilters
    /\ fltRet = NoFilterCall
    /\ pend = NoPending

Init ==
    /\ users = {}
    /\ nextId = 1
    /\ now = 1
    /\ mem = [c \in Callers |-> Identity(ZeroUser)]
    /\ last = NoCall
    /\ updates = [i \in 1..MaxUsers |-> 0]
    /\ won = {}
    /\ panicked = FALSE
    /\ InitRest

\* caller c validates a user it built: ValidateUser(v, user)
Validate(c, u) ==
    /\ ~panicked
    /\ last' = Call(c, "ValidateUser", u, <<u>>,
                    IF Valid(ValidateUser(NewValidator, u)) THEN Nil ELSE "invalid")
    /\ panicked' = ValidateUserPanics(u)
    /\ UNCHANGED <<pend, users, nextId, mem, updates, won, now, tokVars, pw,
                   pwRet, flt, fltRet>>

\* caller c calls m.Insert(user) on a user it built
Insert(c, u, answers) ==
    /\ ~panicked
    /\ LET r == UserModelInsert(users, nextId, now, u, answers) IN
       /\ Cardinality(r.rows) <= MaxUsers
       /\ users' = r.rows
       /\ nextId' = IF r.err = Nil THEN nextId + 1 ELSE nextId
       /\ mem' = [mem EXCEPT ![c] = Identity(r.user)]
       /\ last' = Call(c, "Insert", u, <<r.user>>, r.err)
    /\ UNCHANGED <<pend, updates, won, panicked, now, tokVars, pw, pwRet, flt,
                   fltRet>>

\* caller c calls m.GetByEmail(email) and holds the user it returns
GetByEmail(c, email, answers) ==
    /\ ~panicked
    /\ LET r == UserModelGetByEmail(users, email, answers) IN
       /\ mem' = [mem EXCEPT ![c] =
                    IF r.user = <<>> THEN mem[c] ELSE Identity(r.user[1])]
       /\ last' = Call(c, "GetByEmail", [ZeroUser EXCEPT !.Email = email],
                       r.user, r.err)
    /\ UNCHANGED <<pend, users, nextId, updates, won, panicked, now, tokVars, pw,
                   pwRet, flt, fltRet>>

\* caller c calls m.Update(user) on the user it holds
Update(c, u, answers) ==
    /\ ~panicked
    /\ LET r == UserModelUpdate(users, u, answers) IN
       /\ \A row \in r.rows : row.version <= MaxVersion
       /\ users' = r.rows
       /\ mem' = [mem EXCEPT ![c] = Identity(r.user)]
       /\ last' = Call(c, "Update", u, <<r.user>>, r.err)
       /\ updates' = IF r.err = Nil /\ u.ID \in DOMAIN updates
                     THEN [updates EXCEPT ![u.ID] = @ + 1]
                     ELSE updates
       /\ won' = IF r.err = Nil
                 THEN won \cup {[id |-> u.ID, version |-> u.Version]}
                 ELSE won
    /\ UNCHANGED <<pend, nextId, panicked, now, tokVars, pw, pwRet, flt,
                   fltRet>>

Next ==
    \/ \E c \in Callers, u \in NewUsers, answers \in BOOLEAN : Insert(c, u, answers)
    \/ \E c \in Callers, e \in Emails, answers \in BOOLEAN : GetByEmail(c, e, answers)
    \/ \E c \in Callers, e \in Emails, edited \in BOOLEAN, answers \in BOOLEAN :
           Update(c, Held(c, e, edited), answers)

Spec == Init /\ [][Next]_vars

\* the same repository, its callers building users with and without a
\* credential and validating them or not before they insert them
NextUnchecked ==
    \/ \E c \in Callers, u \in NewUsers \cup HashlessUsers : Validate(c, u)
    \/ \E c \in Callers, u \in NewUsers \cup HashlessUsers, answers \in BOOLEAN :
           Insert(c, u, answers)
    \/ \E c \in Callers, e \in Emails, answers \in BOOLEAN : GetByEmail(c, e, answers)

SpecUnchecked == Init /\ [][NextUnchecked]_vars
-----------------------------------------------------------------------------
(* Claims about the repository.  A claim about what a call returns is a
   property of the step the call takes: the unprimed variables are the state
   the call finds, last' is the call and what it returned. *)

\* The step is a call of method op.  A call that leaves last as it is repeats
\* the call before it in the state that call left, and changes nothing.
Called(op) == last' # last /\ last'.op = op

\* the store answered the call within the timeout
Answered == last'.err # CtxDeadlineExceeded

\* the (id, version) pair the call carries
Carried == [id |-> last'.arg.ID, version |-> last'.arg.Version]

\* the stored row of user id
RowOf(rows, id) == CHOOSE r \in rows : r.id = id

\* C1 as claimed: of two or more Update calls that carry the id and the
\* version v of a persisted user, exactly one succeeds and every other one
\* returns EditConflict: each call the store answers returns success or
\* EditConflict, and it succeeds only if none carrying the pair has yet.
C1_ExactlyOne ==
    [][(/\ Called("Update")
        /\ Answered
        /\ \E r \in users : r.id = Carried.id /\ Carried.version \in 1..r.version
        /\ \E d \in Callers \ {last'.caller} :
               mem[d].ID = Carried.id /\ mem[d].Version = Carried.version)
       => /\ last'.err \in {Nil, ErrEditConflict}
          /\ last'.err = Nil => Carried \notin won]_vars

\* C1 as amended: at most one Update carrying (id, v) succeeds, and it takes
\* the stored version from v to v + 1; a call the store answers succeeds if
\* the stored version is still v and no other user holds its email; every call
\* the store answers after the successful one returns EditConflict.
C1_AtMostOne ==
    [][Called("Update")
       => /\ last'.err = Nil
             => /\ Carried \notin won
                /\ \E r \in users : r.id = Carried.id /\ r.version = Carried.version
                /\ RowOf(users', Carried.id).version = Carried.version + 1
          /\ (/\ Answered
              /\ UpdateMatch(users, Carried.id, Carried.version) # {}
              /\ ~EmailTaken(users, Carried.id, last'.arg.Email))
             => last'.err = Nil
          /\ (Answered /\ Carried \in won) => last'.err = ErrEditConflict]_vars

\* two callers carried the same (id, version): one won, and the Update of the
\* other, called after it, returned EditConflict
C1_Witness ==
    /\ last.op = "Update" /\ last.err = ErrEditConflict
    /\ [id |-> last.arg.ID, version |-> last.arg.Version] \in won
    /\ \E d \in Callers \ {last.caller} :
           mem[d].ID = last.arg.ID /\ mem[d].Version = last.arg.Version + 1

C3_UpdateDuplicateEmail ==
    [][(/\ Called("Update")
        /\ Answered
        /\ UpdateMatch(users, Carried.id, Carried.version) # {}
        /\ EmailTaken(users, Carried.id, last'.arg.Email))
       => last'.err = ErrDuplicateEmail]_vars

\* C4: an Insert the store answers succeeds when no user holds the email, and
\* then the caller's User carries a fresh id, the store's created_at and the
\* initial version, the values of the one row added; when a user holds the
\* email it returns DuplicateEmail and the table is unchanged.
C4_InsertTwice ==
    [][(Called("Insert") /\ Answered)
       => IF \E r \in users : r.email = last'.arg.Email
          THEN last'.err = ErrDuplicateEmail /\ users' = users
          ELSE /\ last'.err = Nil
               /\ LET u == last'.out[1] IN
                  /\ u.ID # 0 /\ u.ID \notin {r.id : r \in users}
                  /\ u.CreatedAt = now
                  /\ u.Version = 1
                  /\ \E r \in users' :
                       /\ users' = users \cup {r} /\ r \notin users
                       /\ r.id = u.ID /\ r.created_at = u.CreatedAt
                       /\ r.version = u.Version /\ r.email = u.Email]_vars

\* the second Insert of an email returned DuplicateEmail; the first one's row
\* is there, at the initial version
C4_Witness ==
    /\ last.op = "Insert" /\ last.err = ErrDuplicateEmail
    /\ \E r \in users : r.email = last.arg.Email /\ r.version = 1
    /\ last.out[1].ID = 0

\* C6: no two persisted users have the same email.
C6_EmailsUnique ==
    \A r1 \in users, r2 \in users : r1.email = r2.email => r1 = r2

\* two users persisted, and an Update that tried to take the other's email
C6_Witness ==
    /\ Cardinality(users) = 2
    /\ last.op = "Update" /\ last.err = PqUniqueViolation

\* C7: an Update whose (id, version) matches no stored row leaves the table
\* as it is and does not succeed; when the store answers it returns
\* EditConflict.
C7_NoMatchEditConflict ==
    [][(Called("Update") /\ UpdateMatch(users, Carried.id, Carried.version) = {})
       => /\ users' = users
          /\ last'.err \notin {Nil, ErrRecordNotFound}
          /\ Answered => last'.err = ErrEditConflict]_vars

\* an Update with a stale version returned EditConflict
C7_Witness ==
    /\ last.op = "Update" /\ last.err = ErrEditConflict
    /\ \E r \in users : r.id = last.arg.ID /\ r.version > last.arg.Version

ValidatedNames == {<<>>, <<"a">>, Rep("a", MaxNameLen), Rep("a", MaxNameLen + 1)}
ValidatedEmails == {<<>>, <<"a">>, <<"a", "@", "a">>, <<"b", "@", "b">>}
ValidatedPlainTexts ==
    {<<>>, <<<<>>>>, <<Rep("a", MinPasswordLen - 1)>>, <<Rep("a", MinPasswordLen)>>,
     <<<<"p", "a", "s", "s", "w", "o", "r", "d">>>>,
     <<Rep("a", MaxPasswordLen)>>, <<Rep("a", MaxPasswordLen + 1)>>}

\* users with a credential hash, with and without a plaintext
ValidatedUsers ==
    {[ZeroUser EXCEPT !.Name = n, !.Email = e,
                      !.Password = [PlainText |-> p, Hash |-> FirstPassword.Hash]] :
        n \in ValidatedNames, e \in ValidatedEmails, p \in ValidatedPlainTexts}

\* callers validating users
NextValidate == \E c \in Callers, u \in ValidatedUsers : Validate(c, u)

SpecValidate == Init /\ [][NextValidate]_vars

\* C18: ValidateUser of a user with a credential hash and no plaintext passes
\* exactly when the name is 1 to 500 bytes long and the email is non-empty
\* and matches the email pattern; with a plaintext it passes exactly when, in
\* addition, the plaintext is 8 to 72 bytes long and not in the denylist.
C18_PasswordRulesOnlyWithPlainText ==
    [][Called("ValidateUser")
       => LET u == last'.arg
              nameOk == Len(u.Name) \in 1..500
              emailOk == u.Email # <<>> /\ MatchesEmailRX(u.Email)
              plain == u.Password.PlainText
              passOk == /\ Len(plain[1]) \in 8..72
                        /\ plain[1] \notin CommonPasswords
          IN  /\ plain = <<>> => (last'.err = Nil <=> nameOk /\ emailOk)
              /\ plain # <<>> => (last'.err = Nil <=> nameOk /\ emailOk /\ passOk)]_vars

\* a user with a hash and no plaintext passed validation
C18_Witness ==
    /\ last.op = "ValidateUser" /\ last.err = Nil
    /\ last.arg.Password.PlainText = <<>>
    /\ last.arg.Password.Hash # NilHash
    /\ Len(last.arg.Name) = MaxNameLen

\* C13: a GetByEmail(e) the store answers returns RecordNotFound and no user
\* when no stored user has email e; otherwise it returns nil and the one stored
\* user with email e, with the id, created_at, name, hash, activated flag and
\* version stored for it.  What is stored for a user after a successful Update
\* is what that Update carried, the version one higher.
C13_GetByEmail ==
    /\ [][(Called("GetByEmail") /\ Answered)
          => LET found == {r \in users : r.email = last'.arg.Email} IN
             IF found = {}
             THEN last'.out = <<>> /\ last'.err = ErrRecordNotFound
             ELSE /\ last'.err = Nil
                  /\ Cardinality(found) = 1
                  /\ Len(last'.out) = 1
                  /\ \A r \in found :
                        /\ last'.out[1].ID = r.id
                        /\ last'.out[1].CreatedAt = r.created_at
                        /\ last'.out[1].Name = r.name
                        /\ last'.out[1].Email = r.email
                        /\ last'.out[1].Password.Hash = r.password_hash
                        /\ last'.out[1].Activated = r.activated
                        /\ last'.out[1].Version = r.version]_vars
    /\ [][(Called("Update") /\ last'.err = Nil)
          => \E r \in users' :
                /\ r.id = last'.arg.ID
                /\ r.name = last'.arg.Name
                /\ r.email = last'.arg.Email
                /\ r.password_hash = last'.arg.Password.Hash
                /\ r.activated = last'.arg.Activated
                /\ r.version = last'.arg.Version + 1]_vars

\* GetByEmail returned a user at the email, the name, the credential and the
\* version a successful Update wrote
C13_Witness ==
    /\ last.op = "GetByEmail" /\ last.err = Nil
    /\ last.out[1].ID = 1
    /\ last.out[1].Email = <<"b", "@", "b">>
    /\ last.out[1].Name = <<"b">>
    /\ last.out[1].Password.Hash = SecondPassword.Hash
    /\ last.out[1].Version = 2

\* C16: a successful Update replaces the one row whose id and version it
\* carried by a row of the same id and created_at, and leaves every other row
\* as it was.
C16_UpdateFrame ==
    [][(Called("Update") /\ last'.err = Nil)
       => \E old \in users, new \in users' :
             /\ old.id = last'.arg.ID /\ old.version = last'.arg.Version
             /\ new.id = old.id
             /\ new.created_at = old.created_at
             /\ users' \ {new} = users \ {old}
             /\ Cardinality(users') = Cardinality(users)]_vars

\* an Update changed the name, the email and the credential of one of two
\* users
C16_Witness ==
    /\ last.op = "Update" /\ last.err = Nil
    /\ Cardinality(users) = 2
    /\ \E r \in users : /\ r.id = last.arg.ID
                         /\ r.name = <<"b">>
                         /\ r.password_hash = SecondPassword.Hash
                         /\ r.version = 2
    /\ \E r \in users : r.id # last.arg.ID /\ r.version = 1

-----------------------------------------------------------------------------
(* Callers that update the User they hold again and again *)

\* caller c calls m.Update(user) on the user it holds, the user updated up to
\* MaxVersion times
ChainedUpdate(c, u, answers) ==
    /\ ~panicked
    /\ LET r == UserModelUpdate(users, u, answers) IN
       /\ \A row \in r.rows : row.version <= InitialVersion + MaxVersion
       /\ users' = r.rows
       /\ mem' = [mem EXCEPT ![c] = Identity(r.user)]
       /\ last' = Call(c, "Update", u, <<r.user>>, r.err)
       /\ updates' = IF r.err = Nil /\ u.ID \in DOMAIN updates
                     THEN [updates EXCEPT ![u.ID] = @ + 1]
                     ELSE updates
       /\ won' = IF r.err = Nil
                 THEN won \cup {[id |-> u.ID, version |-> u.Version]}
                 ELSE won
    /\ UNCHANGED <<pend, nextId, panicked, now, tokVars, pw, pwRet, flt,
                   fltRet>>

NextChain ==
    \/ \E c \in Callers, u \in NewUsers : Insert(c, u, TRUE)
    \/ \E c \in Callers, e \in Emails : GetByEmail(c, e, TRUE)
    \/ \E c \in Callers, e \in Emails, answers \in BOOLEAN :
           ChainedUpdate(c, Held(c, e, FALSE), answers)

SpecChain == Init /\ [][NextChain]_vars

\* the User caller c holds carries the version stored for it
Fresh(c) == \E r \in users : r.id = mem[c].ID /\ r.version = mem[c].Version

\* the same after the step
FreshAfter(c) == \E r \in users' : r.id = mem'[c].ID /\ r.version = mem'[c].Version

\* the step is a successful Update of the user caller c holds, by another caller
OtherWriter(c) ==
    /\ Called("Update") /\ last'.err = Nil
    /\ last'.caller # c /\ last'.arg.ID = mem[c].ID

\* the step is a call of caller c that replaces the User it holds
Reloads(c) == last' # last /\ last'.caller = c /\ last'.op # "Update"

\* Update writes the version back on success only; a stale User stays stale
\* until its caller reloads it, and an Update of it that the store answers
\* returns EditConflict
WriteBack ==
    /\ [][Called("Update")
          => LET before == last'.arg.Version
                 after == last'.out[1].Version
             IN  IF last'.err = Nil
                 THEN /\ after = before + 1
                      /\ \E r \in users' : r.id = last'.arg.ID /\ r.version = after
                      /\ FreshAfter(last'.caller)
                 ELSE /\ after = before
                      /\ mem'[last'.caller].Version = mem[last'.caller].Version]_vars
    /\ [][\A c \in Callers :
            (Fresh(c) /\ ~OtherWriter(c) /\ ~Reloads(c)) => Fresh(c)']_vars
    /\ [][(Called("Update") /\ last'.err = ErrEditConflict)
          => ~FreshAfter(last'.caller)]_vars
    /\ [][\A c \in Callers : (~Fresh(c) /\ ~Reloads(c)) => ~Fresh(c)']_vars
    /\ [][(Called("Update") /\ Answered /\ ~Fresh(last'.caller))
          => last'.err = ErrEditConflict]_vars

-----------------------------------------------------------------------------
(* GetForToken over a tokens table the token store writes *)

TokenPlaintexts == {"T1", "T2"}

Scopes == {"authentication", "activation"}

\* two users inserted, the table GetForToken reads
TwoUsers ==
    LET one == QueryInsert({}, 1, 1, <<"a">>, <<"a", "@", "a">>,
                           FirstPassword.Hash, FALSE).rows
    IN  QueryInsert(one, 2, 1, <<"b">>, <<"b", "@", "b">>,
                    SecondPassword.Hash, TRUE).rows

InitToken ==
    /\ users = TwoUsers
    /\ nextId = 3
    /\ now = 1
    /\ mem = [c \in Callers |-> Identity(ZeroUser)]
    /\ last = NoCall
    /\ updates = [i \in 1..MaxUsers |-> 0]
    /\ won = {}
    /\ panicked = FALSE
    /\ InitRest

\* time passes
Tick ==
    /\ now < MaxTime
    /\ now' = now + 1
    /\ UNCHANGED <<pend, repoVars, tokVars, pw, pwRet, flt, fltRet>>

\* the token store binds a token to a user
TokenStoreInsert(plain, scope, expiry, id) ==
    /\ Cardinality(tokens) < MaxTokens
    /\ tokens' = tokens \cup {[hash |-> Sha256(plain), scope |-> scope,
                               expiry |-> expiry, user_id |-> id]}
    /\ UNCHANGED <<pend, repoVars, now, tokRet, pw, pwRet, flt, fltRet>>

\* the token store deletes a binding
TokenStoreDelete(k) ==
    /\ tokens' = tokens \ {k}
    /\ UNCHANGED <<pend, repoVars, now, tokRet, pw, pwRet, flt, fltRet>>

\* what the tokens table holds for a token and a scope at time t: no binding
\* of the token, none of the scope, none that expires at t or later, none
\* that expires later than t, or one that does
Binding(toks, plain, scope, t) ==
    LET mine == {k \in toks : k.hash = Sha256(plain)}
        scoped == {k \in mine : k.scope = scope}
    IN  IF mine = {} THEN "unknown"
        ELSE IF scoped = {} THEN "other scope"
        ELSE IF \A k \in scoped : k.expiry < t THEN "expired"
        ELSE IF \A k \in scoped : k.expiry <= t THEN "expires now"
        ELSE "live"

\* a caller calls m.GetForToken(tokenScope, tokenPlainText) at time now; why
\* keeps what the table held for the token when it was called
GetForToken(tokenScope, tokenPlainText, answers) ==
    /\ \E r \in UserModelGetForToken(users, tokens, tokenScope, tokenPlainText,
                                     now, answers) :
           tokRet' = [scope |-> tokenScope, plain |-> tokenPlainText,
                      why |-> Binding(tokens, tokenPlainText, tokenScope, now),
                      user |-> r.user, err |-> r.err]
    /\ UNCHANGED <<pend, repoVars, now, tokens, pw, pwRet, flt, fltRet>>

NextToken ==
    \/ Tick
    \/ \E plain \in TokenPlaintexts, scope \in Scopes, expiry \in 1..(MaxTime + 1),
          r \in users : TokenStoreInsert(plain, scope, expiry, r.id)
    \/ \E k \in tokens : TokenStoreDelete(k)
    \/ \E scope \in Scopes, plain \in TokenPlaintexts, answers \in BOOLEAN :
           GetForToken(scope, plain, answers)

SpecToken == InitToken /\ [][NextToken]_vars

\* the bindings of the token, the scope and a later expiry that the call finds
LiveBindings ==
    {k \in tokens : /\ k.hash = Sha256(tokRet'.plain)
                    /\ k.scope = tokRet'.scope
                    /\ k.expiry > now}

\* C5: a GetForToken call the store answers returns a user if and only if a
\* binding has the digest of the token, the scope, and an expiry later than
\* the time of the call, and the user is the owner of such a binding;
\* otherwise it returns RecordNotFound and no user.  The clock does not go
\* back, so a binding that has expired stays expired.
\* (A call that leaves tokRet as it is repeats the arguments and the result
\* of the call before it, and changes nothing.)
C5_GetForToken ==
    /\ [][(tokRet' # tokRet /\ tokRet'.err # CtxDeadlineExceeded)
          => IF LiveBindings = {}
             THEN tokRet'.user = <<>> /\ tokRet'.err = ErrRecordNotFound
             ELSE /\ tokRet'.err = Nil
                  /\ \E k \in LiveBindings :
                       tokRet'.user = <<ScanUser(RowOf(users, k.user_id))>>]_vars
    /\ [](tokRet.why \in {"unknown", "other scope", "expired", "expires now"}
          => tokRet.user = <<>>
             /\ tokRet.err \in {ErrRecordNotFound, CtxDeadlineExceeded})
    /\ [][now' >= now]_vars

\* a call at the very expiry of the binding of its token and scope returned
\* RecordNotFound
C5_Witness ==
    /\ tokRet.err = ErrRecordNotFound
    /\ tokRet.why = "expires now"

-----------------------------------------------------------------------------
(* The repository with its four methods, over a store that answers every
   call and a tokens table that binds a token to the first user *)

\* the bindings of the tokens table: none expires while the model runs
StoredTokens ==
    {[hash |-> Sha256("T1"), scope |-> "authentication", expiry |-> MaxTime + 1,
      user_id |-> 1]}

\* the token the callers present: bound under one scope, unknown under the other
PresentedTokens == {"T1"}

InitStored ==
    /\ users = {}
    /\ nextId = 1
    /\ now = 1
    /\ mem = [c \in Callers |-> Identity(ZeroUser)]
    /\ last = NoCall
    /\ updates = [i \in 1..MaxUsers |-> 0]
    /\ won = {}
    /\ panicked = FALSE
    /\ tokens = StoredTokens
    /\ tokRet = NoTokenCall
    /\ pw = ZeroPassword
    /\ pwRet = [op |-> "none", arg |-> <<>>, ok |-> FALSE, err |-> Nil]
    /\ flt = ZeroFilters
    /\ fltRet = NoFilterCall
    /\ pend = NoPending

\* caller c calls m.GetForToken(tokenScope, tokenPlainText) and holds the user
\* it returns
GetForTokenBy(c, tokenScope, tokenPlainText, answers) ==
    /\ ~panicked
    /\ \E r \in UserModelGetForToken(users, tokens, tokenScope, tokenPlainText,
                                     now, answers) :
          /\ mem' = [mem EXCEPT ![c] =
                       IF r.user = <<>> THEN mem[c] ELSE Identity(r.user[1])]
          /\ last' = Call(c, "GetForToken", ZeroUser, r.user, r.err)
    /\ UNCHANGED <<pend, users, nextId, updates, won, panicked, now, tokVars, pw,
                   pwRet, flt, fltRet>>

NextStored ==
    \/ \E c \in Callers, u \in NewUsers : Insert(c, u, TRUE)
    \/ \E c \in Callers, e \in Emails : GetByEmail(c, e, TRUE)
    \/ \E c \in Callers, e \in Emails, edited \in BOOLEAN :
           Update(c, Held(c, e, edited), TRUE)
    \/ \E c \in Callers, scope \in Scopes, plain \in PresentedTokens :
           GetForTokenBy(c, scope, plain, TRUE)

SpecStored == InitStored /\ [][NextStored]_vars

\* the columns of table users
Columns ==
    {"id", "created_at", "name", "email", "password_hash", "activated", "version"}

\* the User without the plaintext of its credential
WithoutPlainText(u) == [u EXCEPT !.Password.PlainText = <<>>]

\* C15: Insert and Update write the credential hash and nothing of the
\* plaintext: the table after the call is the one the same call leaves for the
\* User without its plaintext, and the row holds the hash the caller's User
\* carried.  Every User that GetByEmail or GetForToken returns has no
\* plaintext.
C15_NoPlainTextStored ==
    /\ [](\A r \in users : DOMAIN r = Columns)
    /\ [][(Called("Insert") /\ last'.err = Nil)
          => /\ users' = UserModelInsert(users, nextId, now,
                                         WithoutPlainText(last'.arg), TRUE).rows
             /\ \E r \in users' \ users :
                   r.password_hash = last'.arg.Password.Hash]_vars
    /\ [][(Called("Update") /\ last'.err = Nil)
          => /\ users' = UserModelUpdate(users, WithoutPlainText(last'.arg),
                                         TRUE).rows
             /\ \E r \in users' \ users :
                   r.password_hash = last'.arg.Password.Hash]_vars
    /\ [][((Called("GetByEmail") \/ Called("GetForToken")) /\ last'.err = Nil)
          => /\ Len(last'.out) = 1
             /\ last'.out[1].Password.PlainText = <<>>]_vars

\* GetForToken returned, without a plaintext, a user whose stored hash an
\* Update carrying the plaintext wrote
C15_Witness ==
    /\ last.op = "GetForToken" /\ last.err = Nil
    /\ last.out[1].Password.Hash = SecondPassword.Hash
    /\ last.out[1].Password.PlainText = <<>>
    /\ SecondPassword.PlainText # <<>>

-----------------------------------------------------------------------------
(* A call of a repository method step by step: the method derives a context
   that expires after 3 seconds, issues its one statement with
   QueryRowContext and waits in Scan; the store answers or the context
   expires; the method maps the error and returns. *)

\* the statement of the call of caller c, run on the table as it is: the
\* tables it may leave, the row it returns and the error it reports
StoreResult(c) ==
    LET p == pend[c] IN
    IF p.op = "Insert"
    THEN LET q == QueryInsert(users, nextId, now, p.arg.Name, p.arg.Email,
                              p.arg.Password.Hash, p.arg.Activated)
         IN  {[rows |-> q.rows, row |-> q.row, raw |-> q.err]}
    ELSE IF p.op = "Update"
    THEN LET q == QueryUpdate(users, p.arg.Name, p.arg.Email, p.arg.Password.Hash,
                              p.arg.Activated, p.arg.ID, p.arg.Version)
         IN  {[rows |-> q.rows, row |-> [NoRow EXCEPT !.version = q.version],
               raw |-> q.err]}
    ELSE IF p.op = "GetByEmail"
    THEN LET q == QueryByEmail(users, p.arg.Email)
         IN  {[rows |-> users, row |-> q.row, raw |-> q.err]}
    ELSE LET found == QueryForToken(users, tokens, Sha256(p.plain), p.scope, now)
         IN  IF found = {}
             THEN {[rows |-> users, row |-> NoRow, raw |-> SqlErrNoRows]}
             ELSE {[rows |-> users, row |-> r, raw |-> Nil] : r \in found}

\* the tables the model follows: MaxUsers rows, versions up to MaxVersion
WithinBounds(rows) ==
    /\ Cardinality(rows) <= MaxUsers
    /\ \A r \in rows : r.version <= MaxVersion

\* caller c calls a method: context.WithTimeout, then QueryRowContext
Begin(c, op, arg, scope, plain) ==
    /\ pend[c].phase = "idle"
    /\ pend' = [pend EXCEPT ![c] =
                  [phase |-> "waiting", op |-> op, arg |-> arg, scope |-> scope,
                   plain |-> plain, queries |-> 1, timedOut |-> FALSE,
                   row |-> NoRow, raw |-> Nil, out |-> <<>>, err |-> Nil]]
    /\ UNCHANGED <<users, nextId, now, tokens, mem, last, updates, won, panicked,
                   tokRet, pw, pwRet, flt, fltRet>>

\* the store runs the statement of caller c and answers within the timeout
StoreAnswers(c) ==
    /\ pend[c].phase = "waiting"
    /\ \E r \in StoreResult(c) :
          /\ WithinBounds(r.rows)
          /\ users' = r.rows
          /\ nextId' = IF pend[c].op = "Insert" /\ r.raw = Nil
                       THEN nextId + 1 ELSE nextId
          /\ pend' = [pend EXCEPT ![c].phase = "answered", ![c].row = r.row,
                                  ![c].raw = r.raw]
    /\ UNCHANGED <<now, tokens, mem, last, updates, won, panicked, tokRet, pw,
                   pwRet, flt, fltRet>>

\* the context of caller c expires before an answer arrives: Scan returns the
\* error of the context; the statement was cancelled, or the store had run it
Timeout(c, applied) ==
    /\ pend[c].phase = "waiting"
    /\ \E r \in StoreResult(c) :
          /\ applied => WithinBounds(r.rows)
          /\ users' = IF applied THEN r.rows ELSE users
          /\ nextId' = IF applied /\ pend[c].op = "Insert" /\ r.raw = Nil
                       THEN nextId + 1 ELSE nextId
    /\ pend' = [pend EXCEPT ![c].phase = "answered", ![c].timedOut = TRUE,
                            ![c].raw = CtxDeadlineExceeded]
    /\ UNCHANGED <<now, tokens, mem, last, updates, won, panicked, tokRet, pw,
                   pwRet, flt, fltRet>>

\* the context of caller c expires
TimeoutAny(c) == \E applied \in BOOLEAN : Timeout(c, applied)

\* what the method of caller c returns for what Scan returned: the caller's
\* User (or the *User returned) and the error
Returned(c) ==
    LET p == pend[c] IN
    IF p.op = "Insert"
    THEN [out |-> IF p.raw = Nil
                  THEN <<[p.arg EXCEPT !.ID = p.row.id,
                                       !.CreatedAt = p.row.created_at,
                                       !.Version = p.row.version]>>
                  ELSE <<p.arg>>,
          err |-> InsertError(p.raw)]
    ELSE IF p.op = "Update"
    THEN [out |-> IF p.raw = Nil THEN <<[p.arg EXCEPT !.Version = p.row.version]>>
                  ELSE <<p.arg>>,
          err |-> UpdateError(p.raw)]
    ELSE [out |-> IF p.raw = Nil THEN <<ScanUser(p.row)>> ELSE <<>>,
          err |-> IF p.raw = SqlErrNoRows THEN ErrRecordNotFound ELSE p.raw]

\* the method of caller c maps the error and returns; of the call the model
\* keeps the method, the statements issued, the expiry and the error
Return(c) ==
    /\ pend[c].phase = "answered"
    /\ LET r == Returned(c) IN
       /\ pend' = [pend EXCEPT ![c] =
                    [NoPending[c] EXCEPT !.op = pend[c].op,
                                         !.queries = pend[c].queries,
                                         !.timedOut = pend[c].timedOut,
                                         !.err = r.err]]
       /\ mem' = [mem EXCEPT ![c] =
                    IF r.err = Nil THEN Identity(r.out[1]) ELSE mem[c]]
    /\ UNCHANGED <<users, nextId, now, tokens, last, updates, won, panicked,
                   tokRet, pw, pwRet, flt, fltRet>>

NextCall ==
    \/ \E c \in Callers, u \in NewUsers : Begin(c, "Insert", u, "", "")
    \/ \E c \in Callers, e \in Emails :
           Begin(c, "GetByEmail", [ZeroUser EXCEPT !.Email = e], "", "")
    \/ \E c \in Callers, e \in Emails :
           Begin(c, "Update", Held(c, e, TRUE), "", "")
    \/ \E c \in Callers, scope \in Scopes, plain \in PresentedTokens :
           Begin(c, "GetForToken", ZeroUser, scope, plain)
    \/ \E c \in Callers : StoreAnswers(c)
    \/ \E c \in Callers : TimeoutAny(c)
    \/ \E c \in Callers : Return(c)

\* The timer of a context fires when its deadline passes, and a method whose
\* Scan has returned runs on to its return statement.
SpecCall ==
    /\ InitStored
    /\ [][NextCall]_vars
    /\ \A c \in Callers : WF_vars(TimeoutAny(c)) /\ WF_vars(Return(c))

\* C17: a call of Insert, GetByEmail, Update or GetForToken issues one
\* statement, and it returns: a call that waits for the store comes to its
\* return.  A call whose context expired returns the error of the context,
\* which is none of DuplicateEmail, RecordNotFound and EditConflict.
C17_CallsReturn ==
    /\ [](\A c \in Callers : pend[c].op # "none" => pend[c].queries = 1)
    /\ [](\A c \in Callers :
            (pend[c].phase = "idle" /\ pend[c].timedOut)
            => /\ pend[c].err = CtxDeadlineExceeded
               /\ pend[c].err \notin {Nil, ErrDuplicateEmail, ErrRecordNotFound,
                                       ErrEditConflict})
    /\ \A c \in Callers : (pend[c].phase = "waiting") ~> (pend[c].phase = "idle")

\* an Update whose context expired returned the error of the context
C17_Witness ==
    \E c \in Callers :
        /\ pend[c].phase = "idle" /\ pend[c].op = "Update"
        /\ pend[c].timedOut /\ pend[c].err = CtxDeadlineExceeded
        /\ mem[c].ID = 1

-----------------------------------------------------------------------------
(* A credential: Set, Matches, and a credential scanned from the store *)

\* the plaintext lengths tried: around the limits 8 and 72
PasswordLengths == {0, 7, 8, 9, 71, 72, 73}

\* the plaintexts a caller sets
Plaintexts ==
    {Rep("a", n) : n \in PasswordLengths}
    \cup {Rep("a", n - 1) \o <<"b">> : n \in PasswordLengths \ {0}}
    \cup CommonPasswords

\* the plaintexts a caller tries
Candidates == Plaintexts \cup {p \o <<"x">> : p \in Plaintexts}

Salts == {"s1", "s2"}

\* the hashes a credential scanned from the store may carry
StoredHashes == {EmptyHash, MalformedHash, FirstPassword.Hash}

\* ValidatePassowrdPlaintext finds nothing wrong with the plaintext
ValidPlaintext(plain) == Valid(ValidatePassowrdPlaintext(NewValidator, plain))

InitPassword ==
    /\ pw = ZeroPassword
    /\ pwRet = [op |-> "none", arg |-> <<>>, ok |-> FALSE, err |-> Nil]
    /\ users = {}
    /\ nextId = 1
    /\ now = 1
    /\ mem = [c \in Callers |-> Identity(ZeroUser)]
    /\ last = NoCall
    /\ updates = [i \in 1..MaxUsers |-> 0]
    /\ won = {}
    /\ panicked = FALSE
    /\ tokens = {}
    /\ tokRet = NoTokenCall
    /\ flt = ZeroFilters
    /\ fltRet = NoFilterCall
    /\ pend = NoPending

\* p.Set(plain), the salt being the one bcrypt draws
PwSet(plain, salt) ==
    /\ LET r == PasswordSet(pw, plain, salt) IN
       /\ pw' = r.p
       /\ pwRet' = [op |-> "Set", arg |-> plain, ok |-> FALSE, err |-> r.err]
    /\ UNCHANGED <<pend, repoVars, now, tokVars, flt, fltRet>>

\* p.Matches(plain)
PwMatches(plain) ==
    /\ LET r == PasswordMatches(pw, plain) IN
       pwRet' = [op |-> "Matches", arg |-> plain, ok |-> r.ok, err |-> r.err]
    /\ UNCHANGED <<pend, repoVars, now, tokVars, pw, flt, fltRet>>

\* the credential of a user scanned from a row of the store
PwScan(hash) ==
    /\ pw' = [PlainText |-> <<>>, Hash |-> hash]
    /\ pwRet' = [op |-> "Scan", arg |-> <<>>, ok |-> FALSE, err |-> Nil]
    /\ UNCHANGED <<pend, repoVars, now, tokVars, flt, fltRet>>

NextPassword ==
    \/ \E plain \in Plaintexts, salt \in Salts : PwSet(plain, salt)
    \/ \E plain \in Candidates : PwMatches(plain)
    \/ \E hash \in StoredHashes : PwScan(hash)

SpecPassword == InitPassword /\ [][NextPassword]_vars

\* the credential holds the plaintext and the hash a Set of a valid plaintext
\* left, and the last call is a Matches
MatchedAfterSet ==
    /\ pwRet.op = "Matches"
    /\ pw.PlainText # <<>>
    /\ ValidPlaintext(pw.PlainText[1])

\* C10 as claimed: after Set(p), p valid, Matches(p) returns (true, nil) and
\* Matches(p + "x") returns (false, nil).
C10_RoundTrip ==
    MatchedAfterSet
    => /\ pwRet.arg = pw.PlainText[1] => pwRet.ok /\ pwRet.err = Nil
       /\ pwRet.arg = pw.PlainText[1] \o <<"x">> => ~pwRet.ok /\ pwRet.err = Nil

\* C10 as amended: after Set(p), p valid, Matches(p) returns (true, nil);
\* Matches(p + "x") returns (false, nil) when p is shorter than 72 bytes and
\* (true, nil) when p is 72 bytes long.
C10_RoundTripBelowLimit ==
    MatchedAfterSet
    => /\ pwRet.arg = pw.PlainText[1] => pwRet.ok /\ pwRet.err = Nil
       /\ pwRet.arg = pw.PlainText[1] \o <<"x">>
          => /\ pwRet.err = Nil
             /\ pwRet.ok <=> Len(pw.PlainText[1]) = 72

\* Matches(p + "x") returned (false, nil) after Set(p), p of 71 bytes
C10_Witness ==
    /\ MatchedAfterSet
    /\ Len(pw.PlainText[1]) = 71
    /\ pwRet.arg = pw.PlainText[1] \o <<"x">>
    /\ ~pwRet.ok /\ pwRet.err = Nil

\* the hash is a bcrypt hash
WellFormed(hash) == hash.kind = "bcrypt"

\* C14: Matches returns (false, nil) exactly when the stored hash is a bcrypt
\* hash and the candidate is not the password it was made from (as far as
\* bcrypt reads a password); it returns false and an error when the stored
\* hash is nil, empty or malformed; it never returns true and an error.
C14_MatchesErrors ==
    pwRet.op = "Matches"
    => /\ (~pwRet.ok /\ pwRet.err = Nil)
          <=> (WellFormed(pw.Hash) /\ BcryptKey(pwRet.arg) # pw.Hash.key)
       /\ ~WellFormed(pw.Hash) => ~pwRet.ok /\ pwRet.err # Nil
       /\ ~(pwRet.ok /\ pwRet.err # Nil)

\* Matches on a credential scanned with a malformed hash returned false and
\* an error
C14_Witness ==
    /\ pwRet.op = "Matches"
    /\ pw.Hash = MalformedHash
    /\ ~pwRet.ok /\ pwRet.err = ErrHashTooShort

-----------------------------------------------------------------------------
(* A Filters value: filled from a request, validated or not, and resolved *)

\* the sort values a request may carry
SortValues ==
    {<<>>, <<"-">>, <<"i">>, <<"i", "d">>, <<"-", "i", "d">>, <<"-", "-", "i", "d">>,
     <<"i", "d", ";">>, <<"n">>, <<"-", "n">>}

\* the safelists of the query sites
SafeLists ==
    {<<>>,
     <<<<"i", "d">>, <<"-", "i", "d">>>>,
     <<<<"i", "d">>, <<"n">>, <<"-", "i", "d">>, <<"-", "n">>>>,
     <<<<"-", "-", "i", "d">>, <<"i", "d">>>>}

Pages == {0, 1, MaxPage, MaxPage + 1}

PageSizes == {0, 1, MaxPageSize, MaxPageSize + 1}

InitFilters ==
    /\ flt = ZeroFilters
    /\ fltRet = NoFilterCall
    /\ pw = ZeroPassword
    /\ pwRet = [op |-> "none", arg |-> <<>>, ok |-> FALSE, err |-> Nil]
    /\ users = {}
    /\ nextId = 1
    /\ now = 1
    /\ mem = [c \in Callers |-> Identity(ZeroUser)]
    /\ last = NoCall
    /\ updates = [i \in 1..MaxUsers |-> 0]
    /\ won = {}
    /\ panicked = FALSE
    /\ tokens = {}
    /\ tokRet = NoTokenCall
    /\ pend = NoPending

\* a handler fills a Filters from a request and the safelist of its query
FltRequest(page, size, sort, safelist) ==
    /\ ~fltRet.panics
    /\ flt' = [Page |-> page, PageSize |-> size, Sort |-> sort,
               SortSafeList |-> safelist]
    /\ fltRet' = NoFilterCall
    /\ UNCHANGED <<pend, repoVars, now, tokVars, pw, pwRet>>

\* ValidateFilters(v, f) on a new validator
FltValidate ==
    /\ ~fltRet.panics
    /\ fltRet' = [op |-> "ValidateFilters", out |-> <<>>, panics |-> FALSE,
                  valid |-> Valid(ValidateFilters(NewValidator, flt))]
    /\ UNCHANGED <<pend, repoVars, now, tokVars, pw, pwRet, flt>>

\* f.sortColumn(), validated or not; a panic aborts the process
FltSortColumn ==
    /\ ~fltRet.panics
    /\ LET r == SortColumn(flt) IN
       fltRet' = [op |-> "sortColumn", out |-> r.out, panics |-> r.panics,
                  valid |-> fltRet.op = "ValidateFilters" /\ fltRet.valid]
    /\ UNCHANGED <<pend, repoVars, now, tokVars, pw, pwRet, flt>>

\* f.sortDirection()
FltSortDirection ==
    /\ ~fltRet.panics
    /\ fltRet' = [op |-> "sortDirection", out |-> SortDirection(flt),
                  panics |-> FALSE, valid |-> FALSE]
    /\ UNCHANGED <<pend, repoVars, now, tokVars, pw, pwRet, flt>>

NextFilters ==
    \/ \E page \in Pages, size \in PageSizes, sort \in SortValues,
          safelist \in SafeLists : FltRequest(page, size, sort, safelist)
    \/ FltValidate
    \/ FltSortColumn
    \/ FltSortDirection

SpecFilters == InitFilters /\ [][NextFilters]_vars

\* the sort value is an entry of the safelist
InSafeList(f) == \E i \in 1..Len(f.SortSafeList) : f.SortSafeList[i] = f.Sort

\* a sort value without its leading "-"
WithoutMarker(sort) ==
    IF sort # <<>> /\ Head(sort) = "-" THEN Tail(sort) ELSE sort

\* C8: sortColumn returns a column name only when the sort value equals an
\* entry of the safelist, and the name is the sort value without its leading
\* "-"; for any other sort value, validated or not, it panics and returns
\* nothing.  After the panic no call runs.
C8_SortColumn ==
    /\ fltRet.op = "sortColumn"
       => IF InSafeList(flt)
          THEN ~fltRet.panics /\ fltRet.out = WithoutMarker(flt.Sort)
          ELSE fltRet.panics /\ fltRet.out = <<>>
    /\ fltRet.panics => fltRet.op = "sortColumn" /\ ~fltRet.valid

\* sortColumn, called without validation on a sort value that begins with a
\* safelist entry and is none, panicked
C8_Witness ==
    /\ fltRet.op = "sortColumn" /\ fltRet.panics /\ ~fltRet.valid
    /\ flt.Sort = <<"i", "d", ";">>
    /\ flt.SortSafeList = <<<<"i", "d">>, <<"-", "i", "d">>>>

\* C11: ValidateFilters on a new validator leaves it valid if and only if the
\* page is in 1..10,000,000, the page size is in 1..100 and the sort value
\* equals an entry of the safelist.
C11_ValidateFilters ==
    fltRet.op = "ValidateFilters"
    => (fltRet.valid <=> /\ flt.Page >= 1 /\ flt.Page <= 10000000
                         /\ flt.PageSize >= 1 /\ flt.PageSize <= 100
                         /\ InSafeList(flt))

\* validation failed, page and page size at their largest, for a sort value
\* that is one safelist entry with the marker added and another with one removed
C11_Witness ==
    /\ fltRet.op = "ValidateFilters" /\ ~fltRet.valid
    /\ flt.Page = MaxPage /\ flt.PageSize = MaxPageSize
    /\ flt.Sort = <<"-", "i", "d">>
    /\ flt.SortSafeList = <<<<"-", "-", "i", "d">>, <<"i", "d">>>>


-----------------------------------------------------------------------------
(* calculateMetadata on the total a list query counted *)

\* 2^k
Pow2(k) == <<1>> \o Zeros(k)

\* the totals tried: none, around the page sizes, and around 2^53, above
\* which not every int is a float64
TotalRecordsValues ==
    {<<>>, BitsOf(1), BitsOf(19), BitsOf(20), BitsOf(21), BitsOf(95), BitsOf(100),
     BitsOf(101), Strip(MulAdd(Pow2(52), 2, 0 - 1)), Pow2(53), MulAdd(Pow2(53), 1, 1)}

\* the pages and page sizes of validated filters
MetadataPages == {1, 2, MaxPage}
MetadataPageSizes == {1, 2, 3, 7, 20, 99, MaxPageSize}

\* a handler fills a Filters from a request that passes ValidateFilters
MetaRequest(page, size) ==
    /\ flt' = [Page |-> page, PageSize |-> size, Sort |-> <<>>,
               SortSafeList |-> <<>>]
    /\ fltRet' = NoFilterCall
    /\ UNCHANGED <<pend, repoVars, now, tokVars, pw, pwRet>>

\* calculateMetadata(totalRecords, filters.Page, filters.PageSize)
MetaCalculate(totalRecords) ==
    /\ flt.PageSize > 0
    /\ fltRet' = [op |-> "calculateMetadata",
                  out |-> CalculateMetadata(totalRecords, flt.Page, flt.PageSize),
                  panics |-> FALSE, valid |-> FALSE, total |-> totalRecords]
    /\ UNCHANGED <<pend, repoVars, now, tokVars, pw, pwRet, flt>>

NextMetadata ==
    \/ \E page \in MetadataPages, size \in MetadataPageSizes : MetaRequest(page, size)
    \/ \E totalRecords \in TotalRecordsValues : MetaCalculate(totalRecords)

SpecMetadata == InitFilters /\ [][NextMetadata]_vars

\* C12 as claimed: calculateMetadata returns the zero Metadata for a total of
\* 0, and for a total above 0 and a page size in 1..100 the page, the page
\* size, first page 1, the total, and the last page L for which
\* (L - 1) * pageSize < total <= L * pageSize.
C12_ExactCeiling ==
    fltRet.op = "calculateMetadata"
    => LET m == fltRet.out
           lastTimesSize == Strip(MulAdd(m.LastPage, flt.PageSize, 0))
       IN  IF Strip(fltRet.total) = <<>> THEN m = ZeroMetadata
           ELSE /\ m.CurrentPage = flt.Page
                /\ m.PageSize = flt.PageSize
                /\ m.FirstPage = 1
                /\ m.TotalRecords = Strip(fltRet.total)
                /\ ~Less(lastTimesSize, Strip(fltRet.total))
                /\ Less(lastTimesSize, Strip(MulAdd(fltRet.total, 1, flt.PageSize)))


====
